---- MODULE Spec2Model ----
(***************************************************************************)
(* Model of the column-normalization pipeline (normalized_raw_data.py,     *)
(* class FixedColumnProcessor) and of the wide-ledger transposer           *)
(* (raw_data_etl.py, class DreamsRawDataCreator).                          *)
(*                                                                         *)
(* Text that the code slices, splits or searches (client names, file       *)
(* names) is a sequence of one-character strings.  Column names are plain  *)
(* strings; NameChars gives their characters where the code looks inside   *)
(* them (substring tests, sorting).                                        *)
(***************************************************************************)
EXTENDS Integers, Sequences, FiniteSets, TLC

VARIABLES
    master_df,      \* FixedColumnProcessor.master_df: [none, rows]
    client_name,    \* argument of the create_client_specific_mapping call
    resolved,       \* outcome of that call: [raised, mapping]
    rpc,            \* position of the resolver run: "idle" | "call" | "returned"
    excel_files,    \* run_processing: the discovered files, in discovery order
    fidx,           \* run_processing: index of the next file to load
    all_dataframes, \* run_processing: the frames loaded so far
    combined_df,    \* the combined raw table: [columns, rows]
    result_df,      \* the output table: [columns (in order), rows]
    source_of,      \* history: per output row and column, the raw column written there
    clients,        \* distinct client names of combined_df, first seen first
    cidx,           \* index of the client being processed
    items,          \* mapping.items() still to apply for that client
    pc,             \* position of run_processing
    dreams_file,    \* the ledger workbook on disk: [readable, cells]
    df_raw,         \* the frame find_date_headers returns: [none, cells]
    date_info,      \* the dates found in the header row
    categories_with_rows, \* the categories of column A with their row indices
    raw_data_records,     \* the records emitted, each an insertion-ordered dict
    raw_data_df,    \* the saved table: [columns (in order), rows]
    tpc,            \* position of create_dreams_raw_data
    filename_arg,   \* argument of the extract_client_name call
    extracted       \* outcome of that call: [done, name]

resolverVars == <<client_name, resolved, rpc>>

normalizerVars ==
    <<excel_files, fidx, all_dataframes, combined_df, result_df, source_of,
      clients, cidx, items, pc>>

transposerVars ==
    <<dreams_file, df_raw, date_info, categories_with_rows, raw_data_records,
      raw_data_df, tpc>>

extractVars == <<filename_arg, extracted>>

vars == <<master_df, resolverVars, normalizerVars, transposerVars, extractVars>>

----------------------------------------------------------------------------
(* Text primitives of Python's str, on sequences of characters.            *)

\* Characters in code point order (the order sorted() and < use on str).
AsciiOrder ==
    <<" ","%","&","(",")",",","-",".","/","0","1","2","3","4","5","6","7","8","9","A","B","C","D","E","F","G","H","I","J","K","L","M","N","O","P","Q","R","S","T","U","V","W","X","Y","Z","_","a","b","c","d","e","f","g","h","i","j","k","l","m","n","o","p","q","r","s","t","u","v","w","x","y","z">>

Ord(c) == CHOOSE i \in 1..Len(AsciiOrder) : AsciiOrder[i] = c

UpperChars == <<"A","B","C","D","E","F","G","H","I","J","K","L","M","N","O","P","Q","R","S","T","U","V","W","X","Y","Z">>

LowerChars == <<"a","b","c","d","e","f","g","h","i","j","k","l","m","n","o","p","q","r","s","t","u","v","w","x","y","z">>

\* str.lower() on one character.
LowerChar(c) ==
    IF \E i \in 1..Len(UpperChars) : UpperChars[i] = c
    THEN LowerChars[CHOOSE i \in 1..Len(UpperChars) : UpperChars[i] = c]
    ELSE c

LowerStr(s) == [i \in 1..Len(s) |-> LowerChar(s[i])]

\* Characters str.split() and str.strip() treat as whitespace.
Whitespace == {" "}

\* needle in hay
Contains(hay, needle) ==
    \E i \in 0..(Len(hay) - Len(needle)) :
        SubSeq(hay, i + 1, i + Len(needle)) = needle

\* s.endswith(suffix)
EndsWith(s, suffix) ==
    /\ Len(suffix) <= Len(s)
    /\ SubSeq(s, Len(s) - Len(suffix) + 1, Len(s)) = suffix

Indices(n) == [i \in 1..n |-> i]

\* s.split(): the whitespace-delimited tokens of s, in order.  A token is a
\* maximal run of non-whitespace characters.
Split(s) ==
    LET IsStart(i) == s[i] \notin Whitespace /\ (i = 1 \/ s[i - 1] \in Whitespace)
        TokenEnd(i) ==
            CHOOSE j \in i..Len(s) :
                /\ \A k \in i..j : s[k] \notin Whitespace
                /\ j = Len(s) \/ s[j + 1] \in Whitespace
        starts == SelectSeq(Indices(Len(s)), IsStart)
    IN  [t \in 1..Len(starts) |-> SubSeq(s, starts[t], TokenEnd(starts[t]))]

----------------------------------------------------------------------------
(* Python dict with insertion order: a sequence of <<key, value>> pairs.   *)

DictHas(m, k) == \E i \in 1..Len(m) : m[i][1] = k

DictGet(m, k) == m[CHOOSE i \in 1..Len(m) : m[i][1] = k][2]

\* m[k] = v: a new key goes last, an existing key keeps its place.
DictSet(m, k, v) ==
    IF DictHas(m, k)
    THEN [i \in 1..Len(m) |-> IF m[i][1] = k THEN <<k, v>> ELSE m[i]]
    ELSE Append(m, <<k, v>>)

DictItems(m) == {m[i] : i \in 1..Len(m)}

----------------------------------------------------------------------------
(* Canonical schema registry.                                              *)

\* self.normalized_columns, in declaration order (the modelled part of it).
normalized_columns ==
    << "Administrative", "Bank Charges", "Date", "Date Header", "Forecast Type",
       "Month", "Quarter", "Year", "Total Revenue", "Total Expenses",
       "Software Fees", "Location", "Total Indirect Expenses" >>

standard_columns ==
    << "Record ID", "File Name", "Client Name", "Location", "Month", "Year",
       "Quarter", "Date", "Forecast Type" >>

financial_columns ==
    {"Total Revenue", "Total Expenses", "Administrative", "Annualized Revenue"}

\* numeric_columns of run_processing (the part of it inside the modelled registry).
numeric_columns ==
    {"Administrative", "Bank Charges", "Total Expenses", "Total Revenue"}

NameChars(n) ==
    CASE n = "Administrative" -> <<"A","d","m","i","n","i","s","t","r","a","t","i","v","e">>
      [] n = "Bank Charges" -> <<"B","a","n","k"," ","C","h","a","r","g","e","s">>
      [] n = "Date" -> <<"D","a","t","e">>
      [] n = "Date Header" -> <<"D","a","t","e"," ","H","e","a","d","e","r">>
      [] n = "Forecast Type" -> <<"F","o","r","e","c","a","s","t"," ","T","y","p","e">>
      [] n = "Month" -> <<"M","o","n","t","h">>
      [] n = "Quarter" -> <<"Q","u","a","r","t","e","r">>
      [] n = "Year" -> <<"Y","e","a","r">>
      [] n = "Total Revenue" -> <<"T","o","t","a","l"," ","R","e","v","e","n","u","e">>
      [] n = "Total Expenses" -> <<"T","o","t","a","l"," ","E","x","p","e","n","s","e","s">>
      [] n = "Software Fees" -> <<"S","o","f","t","w","a","r","e"," ","F","e","e","s">>
      [] n = "Location" -> <<"L","o","c","a","t","i","o","n">>
      [] n = "Total Indirect Expenses" -> <<"T","o","t","a","l"," ","I","n","d","i","r","e","c","t"," ","E","x","p","e","n","s","e","s">>
      [] n = "Record ID" -> <<"R","e","c","o","r","d"," ","I","D">>
      [] n = "File Name" -> <<"F","i","l","e"," ","N","a","m","e">>
      [] n = "Client Name" -> <<"C","l","i","e","n","t"," ","N","a","m","e">>
      [] n = "Okotoks Revenue" -> <<"O","k","o","t","o","k","s"," ","R","e","v","e","n","u","e">>
      [] n = " Barlow NE Revenue " -> <<" ","B","a","r","l","o","w"," ","N","E"," ","R","e","v","e","n","u","e"," ">>
      [] n = "Barlow NE Revenue" -> <<"B","a","r","l","o","w"," ","N","E"," ","R","e","v","e","n","u","e">>
      [] n = "Eastpoint SE Revenue" -> <<"E","a","s","t","p","o","i","n","t"," ","S","E"," ","R","e","v","e","n","u","e">>
      [] n = "Corp Revenue" -> <<"C","o","r","p"," ","R","e","v","e","n","u","e">>
      [] n = "Total Location Revenue" -> <<"T","o","t","a","l"," ","L","o","c","a","t","i","o","n"," ","R","e","v","e","n","u","e">>
      [] n = "EBITDA" -> <<"E","B","I","T","D","A">>
      [] n = "  " -> <<" "," ">>
      [] n = "Okotoks" -> <<"O","k","o","t","o","k","s">>
      [] n = "Barlow NE" -> <<"B","a","r","l","o","w"," ","N","E">>
      [] n = "Eastpoint SE" -> <<"E","a","s","t","p","o","i","n","t"," ","S","E">>
      [] n = "Corp" -> <<"C","o","r","p">>
      [] n = "" -> <<>>

SeqToSet(s) == {s[i] : i \in 1..Len(s)}

\* The names NameChars spells.
KnownNames ==
    SeqToSet(normalized_columns) \cup SeqToSet(standard_columns)
    \cup {"Okotoks Revenue", " Barlow NE Revenue ", "Barlow NE Revenue",
          "Eastpoint SE Revenue", "Corp Revenue", "Total Location Revenue",
          "EBITDA", "  ", "Okotoks", "Barlow NE", "Eastpoint SE", "Corp", ""}

\* The name spelled by the characters chars.
NameOf(chars) == CHOOSE n \in KnownNames : NameChars(n) = chars

----------------------------------------------------------------------------
(* Reference mapping table and the resolver.                               *)

\* A missing value (NaN) in a text column of the reference table.
NaNText == <<"NaN">>

NaNName == "<NaN>"

\* self.master_df is None
MasterNone == [none |-> TRUE, rows |-> <<>>]

MasterTable(rows) == [none |-> FALSE, rows |-> rows]

\* The master_dataframe.csv on disk: absent, unreadable, or a table of rows.
\* load_master_dataframe leaves master_df None unless the file exists and parses.
load_master_dataframe(file) ==
    IF file.exists /\ file.readable THEN MasterTable(file.rows) ELSE MasterNone

\* Series.str.contains(token, case=False, na=False) on one cell.
StrContainsNoCase(cell, token) ==
    /\ cell # NaNText
    /\ Contains(LowerStr(cell), LowerStr(token))

\* A filter that keeps every row of the table.
ClientMappingsAll(rows, token) == rows

\* Rows of the table whose 'Client Name' contains the token, in table order.
ClientMappings(rows, token) ==
    SelectSeq(rows, LAMBDA row : StrContainsNoCase(row.ClientName, token))

\* The loop over client_mappings.iterrows(), cut short after its first row.
RECURSIVE ClientRowsMappingBreak(_, _, _)
ClientRowsMappingBreak(rows, i, mapping) ==
    IF i > Len(rows) \/ i > 1
    THEN mapping
    ELSE ClientRowsMappingBreak(rows, i + 1,
            IF rows[i].OriginalColumnNames # NaNName
               /\ rows[i].NormalizedColumnName # NaNName
            THEN DictSet(mapping, rows[i].OriginalColumnNames,
                         rows[i].NormalizedColumnName)
            ELSE mapping)

\* for _, row in client_mappings.iterrows(): mapping[original] = normalized
RECURSIVE ClientRowsMapping(_, _, _)
ClientRowsMapping(rows, i, mapping) ==
    IF i > Len(rows)
    THEN mapping
    ELSE ClientRowsMapping(rows, i + 1,
            IF rows[i].OriginalColumnNames # NaNName
               /\ rows[i].NormalizedColumnName # NaNName
            THEN DictSet(mapping, rows[i].OriginalColumnNames,
                         rows[i].NormalizedColumnName)
            ELSE mapping)

\* A generic mapping in which a later canonical name takes an original name
\* over from an earlier one.
GenericMappingLastClaims(rows) ==
    LET L == Len(rows)
        NormAt(k) == normalized_columns[((k - 1) \div L) + 1]
        RowAt(k) == rows[((k - 1) % L) + 1]
        Offers(k) ==
            /\ RowAt(k).NormalizedColumnName = NormAt(k)
            /\ RowAt(k).OriginalColumnNames # NaNName
        Adds(k) ==
            /\ Offers(k)
            /\ \A e \in (k + 1)..(Len(normalized_columns) * L) :
                  Offers(e) =>
                      RowAt(e).OriginalColumnNames # RowAt(k).OriginalColumnNames
        added == SelectSeq(Indices(Len(normalized_columns) * L), Adds)
    IN  [t \in 1..Len(added) |->
            <<RowAt(added[t]).OriginalColumnNames, NormAt(added[t])>>]

\* Lines 113-120: for norm_name in self.normalized_columns (declaration
\* order), for each row of the table naming it (table order): the row's
\* original name is added unless the mapping already has it.  Slot k stands
\* for the k-th (norm_name, row) visit of the two loops; a visit adds its
\* pair exactly when no earlier visit offered the same original name.
GenericMapping(rows) ==
    LET L == Len(rows)
        NormAt(k) == normalized_columns[((k - 1) \div L) + 1]
        RowAt(k) == rows[((k - 1) % L) + 1]
        Offers(k) ==
            /\ RowAt(k).NormalizedColumnName = NormAt(k)
            /\ RowAt(k).OriginalColumnNames # NaNName
        Adds(k) ==
            /\ Offers(k)
            /\ \A e \in 1..(k - 1) :
                  Offers(e) =>
                      RowAt(e).OriginalColumnNames # RowAt(k).OriginalColumnNames
        added == SelectSeq(Indices(Len(normalized_columns) * L), Adds)
    IN  [t \in 1..Len(added) |->
            <<RowAt(added[t]).OriginalColumnNames, NormAt(added[t])>>]

GreatWhite == <<"G","r","e","a","t"," ","W","h","i","t","e"," ","C","a","r"," ","W","a","s","h">>

NolanHill == <<"N","o","l","a","n"," ","H","i","l","l"," ","C","a","r"," ","W","a","s","h">>

DreamsCarWash == <<"D","r","e","a","m","s"," ","C","a","r"," ","W","a","s","h">>

MintMedHat == <<"M","i","n","t"," ","M","e","d"," ","H","a","t"," ","C","a","r"," ","W","a","s","h">>

\* client_fixes: exact client name -> its manual corrections, in dict order.
client_fixes ==
    << <<GreatWhite, << <<"Total - Revenue", "Total Revenue">> >> >>,
       <<NolanHill, << <<"Total - Revenue", "Total Revenue">> >> >>,
       <<DreamsCarWash, << <<"Total Location Revenue", "Total Revenue">> >> >>,
       <<MintMedHat, << <<"Total - Revenue", "Total Revenue">> >> >> >>

RECURSIVE ApplyFixes(_, _, _)
ApplyFixes(fixes, i, mapping) ==
    IF i > Len(fixes)
    THEN mapping
    ELSE ApplyFixes(fixes, i + 1, DictSet(mapping, fixes[i][1], fixes[i][2]))

\* if client_name in client_fixes: mapping[original] = normalized for each fix
ManualFixes(client, mapping) ==
    IF DictHas(client_fixes, client)
    THEN ApplyFixes(DictGet(client_fixes, client), 1, mapping)
    ELSE mapping

Returned(mapping) == [raised |-> FALSE, mapping |-> mapping]

\* An exception leaving the call (IndexError of split()[0]).
Raised == [raised |-> TRUE, mapping |-> <<>>]

\* create_client_specific_mapping(client_name) against self.master_df.
create_client_specific_mapping(master, client) ==
    IF master.none
    THEN Returned(<<>>)
    ELSE IF Split(client) = <<>>
    THEN Raised
    ELSE LET matched == ClientMappings(master.rows, Split(client)[1])
             base == IF Len(matched) > 0
                     THEN ClientRowsMapping(matched, 1, <<>>)
                     ELSE GenericMapping(master.rows)
         IN  Returned(ManualFixes(client, base))

----------------------------------------------------------------------------
(* Cell values.  A cell is <<kind, payload>>: a missing value, a number,   *)
(* text that spells a number, text that spells none, or text kept as its   *)
(* characters (file and client names).                                     *)

Null == <<"null", 0>>

Num(n) == <<"num", n>>

NumText(n) == <<"numtext", n>>

Text(n) == <<"text", n>>

Str(s) == <<"str", s>>

notna(v) == v # Null

IsNumberOrNull(v) == v[1] \in {"num", "null"}

\* A to_numeric that lets text through unconverted.
to_numeric_keep(v) == IF v[1] = "numtext" THEN Num(v[2]) ELSE v

\* A to_numeric that puts zero where the text is no number.
to_numeric_zero(v) ==
    CASE v[1] = "num" -> v
      [] v[1] = "numtext" -> Num(v[2])
      [] v[1] = "text" -> Num(0)
      [] OTHER -> v

\* pd.to_numeric(..., errors='coerce') on one cell.
to_numeric(v) ==
    CASE v[1] = "num" -> v
      [] v[1] = "numtext" -> Num(v[2])
      [] OTHER -> Null

----------------------------------------------------------------------------
(* Loading and combining the raw files.                                    *)

DropLast(s, n) == SubSeq(s, 1, Len(s) - n)

Ext_xlsx == <<".","x","l","s","x">>

Ext_xls == <<".","x","l","s">>

suffixes ==
    << <<" ","R","a","w"," ","D","a","t","a">>,
       <<" ","D","a","t","a">>,
       <<" ","D","a","s","h","b","o","a","r","d","_","0","1","2","9","2","0","2","5">>,
       <<" ","D","a","s","h","b","o","a","r","d","_","0","1","2","3","2","0","2","5">>,
       <<" ","F","o","r","e","c","a","s","t"," ","A","n","a","l","y","s","i","s","_","0","1","0","2","2","0","2","5">> >>

StripExtension(name) ==
    IF EndsWith(name, Ext_xlsx) THEN DropLast(name, 5)
    ELSE IF EndsWith(name, Ext_xls) THEN DropLast(name, 4)
    ELSE name

\* A suffix loop that tries the suffixes from the last of the list to the first.
RECURSIVE StripLastSuffix(_, _)
StripLastSuffix(name, i) ==
    IF i > Len(suffixes) THEN name
    ELSE IF EndsWith(name, suffixes[Len(suffixes) + 1 - i])
    THEN DropLast(name, Len(suffixes[Len(suffixes) + 1 - i]))
    ELSE StripLastSuffix(name, i + 1)

\* for suffix in suffixes: if name.endswith(suffix): cut it; break
RECURSIVE StripFirstSuffix(_, _)
StripFirstSuffix(name, i) ==
    IF i > Len(suffixes) THEN name
    ELSE IF EndsWith(name, suffixes[i]) THEN DropLast(name, Len(suffixes[i]))
    ELSE StripFirstSuffix(name, i + 1)

RECURSIVE LStrip(_)
LStrip(s) == IF s # <<>> /\ Head(s) \in Whitespace THEN LStrip(Tail(s)) ELSE s

RECURSIVE RStrip(_)
RStrip(s) ==
    IF s # <<>> /\ s[Len(s)] \in Whitespace THEN RStrip(DropLast(s, 1)) ELSE s

\* str.strip()
Strip(s) == RStrip(LStrip(s))

extract_client_name(filename) == Strip(StripFirstSuffix(StripExtension(filename), 1))

\* load_excel_file on a file that reads: the sheet's rows with the two
\* metadata columns set (a sheet column of the same name is overwritten).
load_excel_file(file) ==
    [columns |-> file.columns \cup {"Client Name", "File Name"},
     rows |-> [r \in 1..Len(file.rows) |->
                 [c \in file.columns \cup {"Client Name", "File Name"} |->
                     IF c = "Client Name" THEN Str(extract_client_name(file.name))
                     ELSE IF c = "File Name" THEN Str(file.name)
                     ELSE file.rows[r][c]]]]

EmptyDF == [columns |-> {}, rows |-> <<>>]

RECURSIVE ConcatRows(_, _, _)
ConcatRows(dfs, i, cols) ==
    IF i > Len(dfs) THEN <<>>
    ELSE [r \in 1..Len(dfs[i].rows) |->
             [c \in cols |-> IF c \in dfs[i].columns THEN dfs[i].rows[r][c] ELSE Null]]
         \o ConcatRows(dfs, i + 1, cols)

\* A Combine that numbers the rows from 0.
CombineFromZero(dfs) ==
    LET cols == UNION {dfs[i].columns : i \in 1..Len(dfs)}
        rows == ConcatRows(dfs, 1, cols)
    IN  [columns |-> cols \cup {"Record ID"},
         rows |-> [r \in 1..Len(rows) |->
                     [c \in cols \cup {"Record ID"} |->
                         IF c = "Record ID" THEN Num(r - 1) ELSE rows[r][c]]]]

\* pd.concat(all_dataframes, ignore_index=True, sort=False), then the
\* 'Record ID' column range(1, len + 1).
Combine(dfs) ==
    LET cols == UNION {dfs[i].columns : i \in 1..Len(dfs)}
        rows == ConcatRows(dfs, 1, cols)
    IN  [columns |-> cols \cup {"Record ID"},
         rows |-> [r \in 1..Len(rows) |->
                     [c \in cols \cup {"Record ID"} |->
                         IF c = "Record ID" THEN Num(r) ELSE rows[r][c]]]]

----------------------------------------------------------------------------
(* create_normalized_output_with_verification.                             *)

\* a < b on str: code point order at the first difference, a proper prefix
\* first.
LexLess(a, b) ==
    \E i \in 1..Len(b) :
        /\ \A j \in 1..(i - 1) : j <= Len(a) /\ a[j] = b[j]
        /\ i > Len(a) \/ Ord(a[i]) < Ord(b[i])

\* A sort that leaves the names in the order given.
SortedKeepOrder(names) == names

\* sorted(names), for names that are all different: each name goes to the
\* place after the names below it.
Sorted(names) ==
    LET Rank(x) ==
            1 + Cardinality({k \in 1..Len(names) :
                               LexLess(NameChars(names[k]), NameChars(x))})
    IN  [p \in 1..Len(names) |->
            names[CHOOSE k \in 1..Len(names) : Rank(names[k]) = p]]

sorted_normalized == Sorted(normalized_columns)

\* The standard columns the combined table has, in standard order.
StandardPresent(df) == SelectSeq(standard_columns, LAMBDA c : c \in df.columns)

\* Lines 186-216: the standard columns copied from the combined table, then
\* every canonical name not yet a column, initialised to None.
SeedResult(df) ==
    LET std == StandardPresent(df)
        cols == std \o SelectSeq(sorted_normalized, LAMBDA c : c \notin SeqToSet(std))
    IN  [columns |-> cols,
         rows |-> [r \in 1..Len(df.rows) |->
                     [c \in SeqToSet(cols) |->
                         IF c \in SeqToSet(std) THEN df.rows[r][c] ELSE Null]]]

NoSource == "<none>"

SeedSources(df) ==
    LET res == SeedResult(df)
    IN  [r \in 1..Len(df.rows) |->
            [c \in SeqToSet(res.columns) |->
                IF c \in SeqToSet(StandardPresent(df)) THEN c ELSE NoSource]]

RECURSIVE UniqueFrom(_, _, _)
UniqueFrom(rows, i, acc) ==
    IF i > Len(rows) THEN acc
    ELSE UniqueFrom(rows, i + 1,
            IF rows[i]["Client Name"][2] \in SeqToSet(acc) THEN acc
            ELSE Append(acc, rows[i]["Client Name"][2]))

\* combined_df['Client Name'].unique()
UniqueClients(df) == UniqueFrom(df.rows, 1, <<>>)

\* The index of the whole table in place of the client's rows.
ClientIndicesAll(df, client) == 1..Len(df.rows)

\* client_data.index
ClientIndices(df, client) ==
    {r \in 1..Len(df.rows) : df.rows[r]["Client Name"] = Str(client)}

Revenue == <<"R","e","v","e","n","u","e">>

Expense == <<"E","x","p","e","n","s","e">>

\* Line 248: the target is cleaned as financial data.
IsFinancial(normalized_col) ==
    \/ normalized_col \in financial_columns
    \/ Contains(NameChars(normalized_col), Revenue)
    \/ Contains(NameChars(normalized_col), Expense)

\* pd.api.types.is_numeric_dtype(source_data): the slice has the dtype of the
\* whole combined column, numeric when no cell of it holds text.
is_numeric_dtype(df, original_col) ==
    \A r \in 1..Len(df.rows) : IsNumberOrNull(df.rows[r][original_col])

\* Line 229: the mapping item can be applied at all.
Applicable(df, original_col, normalized_col) ==
    /\ original_col \in df.columns
    /\ normalized_col \in SeqToSet(sorted_normalized)

\* The guard with all() for any(): skip only when every row is populated.
StandardColumnPopulatedAll(res, indices, normalized_col) ==
    /\ normalized_col \in SeqToSet(res.columns)
    /\ normalized_col \in SeqToSet(standard_columns)
    /\ \A r \in indices : notna(res.rows[r][normalized_col])

\* Lines 231-236: the target is a standard column that already holds data
\* for this client.
StandardColumnPopulated(res, indices, normalized_col) ==
    /\ normalized_col \in SeqToSet(res.columns)
    /\ normalized_col \in SeqToSet(standard_columns)
    /\ \E r \in indices : notna(res.rows[r][normalized_col])

\* Lines 243-278: the value written for one source cell.
CleanedValue(df, original_col, normalized_col, v) ==
    IF IsFinancial(normalized_col) THEN to_numeric(v)
    ELSE IF is_numeric_dtype(df, original_col) THEN v
    ELSE to_numeric(v)

\* result_df.loc[client_indices, normalized_col] = cleaned source values
WriteColumn(res, df, indices, original_col, normalized_col) ==
    [res EXCEPT !.rows =
        [r \in 1..Len(res.rows) |->
            IF r \in indices
            THEN [res.rows[r] EXCEPT ![normalized_col] =
                     CleanedValue(df, original_col, normalized_col,
                                  df.rows[r][original_col])]
            ELSE res.rows[r]]]

\* One iteration of the loop over mapping.items() (lines 228-280).
ApplyItem(res, df, client, original_col, normalized_col) ==
    IF ~Applicable(df, original_col, normalized_col) THEN res
    ELSE IF StandardColumnPopulated(res, ClientIndices(df, client), normalized_col)
    THEN res
    ELSE WriteColumn(res, df, ClientIndices(df, client), original_col, normalized_col)

\* Whether that iteration writes the column (history of what it wrote).
ItemWrites(res, df, client, original_col, normalized_col) ==
    /\ Applicable(df, original_col, normalized_col)
    /\ ~StandardColumnPopulated(res, ClientIndices(df, client), normalized_col)

\* Lines 384-390: every listed numeric column passed through to_numeric.
ForceNumeric(res) ==
    [res EXCEPT !.rows =
        [r \in 1..Len(res.rows) |->
            [c \in SeqToSet(res.columns) |->
                IF c \in numeric_columns THEN to_numeric(res.rows[r][c])
                ELSE res.rows[r][c]]]]

----------------------------------------------------------------------------
(* Inputs of the resolver runs.                                            *)

MaxRefRows == 2

AcmeWash == <<"A","c","m","e"," ","W","a","s","h">>

GreatLakes == <<"G","r","e","a","t"," ","L","a","k","e","s">>

EmptyName == <<>>

BlankName == <<" ">>

ClientKeys == {MintMedHat, DreamsCarWash, GreatLakes, AcmeWash, EmptyName, BlankName}

RefClientFields ==
    { <<"m","i","n","t"," ","m","e","d"," ","h","a","t">>, GreatWhite, NaNText }

RefOriginals == {"Total - Revenue", "Sales", NaNName}

RefNormalized == {"Total Revenue", "Administrative", NaNName}

\* A row whose canonical name is none of the registry.
UnlistedRow ==
    [ClientName |-> GreatWhite, OriginalColumnNames |-> "Sales",
     NormalizedColumnName |-> "Misc"]

RefRows ==
    [ClientName : RefClientFields, OriginalColumnNames : RefOriginals,
     NormalizedColumnName : RefNormalized]
    \cup {UnlistedRow}

RefTables == UNION { [1..n -> RefRows] : n \in 0..MaxRefRows }

\* A table with rows always holds at least one client name: a 'Client Name'
\* column read as all-NaN is not a text column.
MasterFiles ==
    { [exists |-> FALSE, readable |-> FALSE, rows |-> <<>>],
      [exists |-> TRUE, readable |-> FALSE, rows |-> <<>>] }
    \cup { [exists |-> TRUE, readable |-> TRUE, rows |-> t] :
             t \in { u \in RefTables :
                       Len(u) = 0 \/ \E i \in 1..Len(u) : u[i].ClientName # NaNText } }

----------------------------------------------------------------------------
(* Resolver runs: one call of create_client_specific_mapping.              *)

NormalizerIdle ==
    /\ excel_files = <<>>
    /\ fidx = 1
    /\ all_dataframes = <<>>
    /\ combined_df = EmptyDF
    /\ result_df = [columns |-> <<>>, rows |-> <<>>]
    /\ source_of = <<>>
    /\ clients = <<>>
    /\ cidx = 1
    /\ items = <<>>
    /\ pc = "idle"

ExtractIdle ==
    /\ filename_arg = <<>>
    /\ extracted = [done |-> FALSE, name |-> <<>>]

NoFrame == [none |-> TRUE, cells |-> <<>>]

TransposerIdle ==
    /\ dreams_file = [readable |-> FALSE, cells |-> <<>>]
    /\ df_raw = NoFrame
    /\ date_info = <<>>
    /\ categories_with_rows = <<>>
    /\ raw_data_records = <<>>
    /\ raw_data_df = [columns |-> <<>>, rows |-> <<>>]
    /\ tpc = "idle"

InitResolve ==
    /\ \E f \in MasterFiles : master_df = load_master_dataframe(f)
    /\ client_name \in ClientKeys
    /\ resolved = Returned(<<>>)
    /\ rpc = "call"
    /\ NormalizerIdle
    /\ TransposerIdle
    /\ ExtractIdle

CallResolve ==
    /\ rpc = "call"
    /\ resolved' = create_client_specific_mapping(master_df, client_name)
    /\ rpc' = "returned"
    /\ UNCHANGED <<master_df, client_name, normalizerVars, transposerVars, extractVars>>

NextResolve == CallResolve

SpecResolve == InitResolve /\ [][NextResolve]_vars

----------------------------------------------------------------------------
(* Inputs of the normalizer runs.                                          *)

MaxFiles == 2

MintFile == <<"M","i","n","t"," ","M","e","d"," ","H","a","t"," ","C","a","r"," ","W","a","s","h"," ","R","a","w"," ","D","a","t","a",".","x","l","s","x">>

AcmeFile == <<"A","c","m","e"," ","W","a","s","h"," ","D","a","t","a",".","x","l","s","x">>

AcmeOldFile == <<"A","c","m","e"," ","W","a","s","h",".","x","l","s">>

GreatLakesFile == <<"G","r","e","a","t"," ","L","a","k","e","s"," ","D","a","s","h","b","o","a","r","d","_","0","1","2","9","2","0","2","5",".","x","l","s","x">>

NamelessFile == <<" ","D","a","t","a",".","x","l","s","x">>

BrokenFile == <<"B","r","o","k","e","n"," ","D","a","t","a",".","x","l","s","x">>

\* The values tried in the one varying cell of each sheet.
CellValues == {Num(5), NumText(6), Text(1)}

Sheet(name, columns, rows) ==
    [name |-> name, loads |-> TRUE, columns |-> columns, rows |-> rows]

\* Two rows; a location on the first only; the varying cell under the total.
MintSheet(v) ==
    Sheet(MintFile, {"Location", "Total - Revenue", "Sales"},
          << [c \in {"Location", "Total - Revenue", "Sales"} |->
                 CASE c = "Location" -> Text(2)
                   [] c = "Total - Revenue" -> Num(7)
                   [] c = "Sales" -> Num(2)],
             [c \in {"Location", "Total - Revenue", "Sales"} |->
                 CASE c = "Location" -> Null
                   [] c = "Total - Revenue" -> v
                   [] c = "Sales" -> Null] >>)

AcmeSheet(v) ==
    Sheet(AcmeFile, {"Location", "Year", "Sales"},
          << [c \in {"Location", "Year", "Sales"} |->
                 CASE c = "Location" -> Text(3)
                   [] c = "Year" -> Num(3)
                   [] c = "Sales" -> v] >>)

\* No standard column at all.
AcmeOldSheet(v) ==
    Sheet(AcmeOldFile, {"Site", "Sales"},
          << [c \in {"Site", "Sales"} |->
                 CASE c = "Site" -> v
                   [] c = "Sales" -> Num(4)] >>)

\* A Location column without data.
GreatLakesSheet(v) ==
    Sheet(GreatLakesFile, {"Location", "Site"},
          << [c \in {"Location", "Site"} |->
                 CASE c = "Location" -> Null
                   [] c = "Site" -> v] >>)

\* A file whose name leaves no client name.
NamelessSheet ==
    Sheet(NamelessFile, {"Sales"}, << [c \in {"Sales"} |-> Num(1)] >>)

\* A file read_excel fails on.
BrokenSheet == [name |-> BrokenFile, loads |-> FALSE, columns |-> {}, rows |-> <<>>]

ExcelFiles ==
    {NamelessSheet, BrokenSheet}
    \cup {MintSheet(v) : v \in CellValues}
    \cup {AcmeSheet(v) : v \in CellValues}
    \cup {AcmeOldSheet(v) : v \in CellValues}
    \cup {GreatLakesSheet(v) : v \in CellValues}

\* glob("*.xlsx") + glob("*.xls"): no .xls file before an .xlsx file.
DiscoveryOrder(fs) ==
    \A i, j \in 1..Len(fs) :
        (i < j /\ EndsWith(fs[j].name, Ext_xlsx)) => EndsWith(fs[i].name, Ext_xlsx)

FileLists ==
    {fs \in UNION { [1..n -> ExcelFiles] : n \in 0..MaxFiles } : DiscoveryOrder(fs)}

RefRow(client, original, normalized) ==
    [ClientName |-> client, OriginalColumnNames |-> original,
     NormalizedColumnName |-> normalized]

mint_lower == <<"m","i","n","t"," ","m","e","d"," ","h","a","t">>

OtherCo == <<"O","t","h","e","r"," ","C","o">>

\* A table with rows for each modelled client.
ClientTable ==
    << RefRow(mint_lower, "Total - Revenue", "Administrative"),
       RefRow(mint_lower, "Sales", "Total Revenue"),
       RefRow(AcmeWash, "Year", "Date Header"),
       RefRow(AcmeWash, "Location", "Location"),
       RefRow(AcmeWash, "Sales", "Bank Charges"),
       RefRow(AcmeWash, "Site", "Software Fees"),
       RefRow(GreatWhite, "Site", "Location"),
       RefRow(GreatWhite, "Location", "Location") >>

\* A table that matches no modelled client: every client falls back to it.
GenericTable ==
    << RefRow(OtherCo, "Sales", "Total Revenue"),
       RefRow(OtherCo, "Sales", "Administrative"),
       RefRow(OtherCo, "Total - Revenue", "Total Expenses"),
       RefRow(OtherCo, "Site", "Location"),
       RefRow(OtherCo, "Year", "Year") >>

NormalizerMasterFiles ==
    { [exists |-> FALSE, readable |-> FALSE, rows |-> <<>>],
      [exists |-> TRUE, readable |-> TRUE, rows |-> ClientTable],
      [exists |-> TRUE, readable |-> TRUE, rows |-> GenericTable] }

----------------------------------------------------------------------------
(* run_processing, step by step.                                           *)

Init ==
    /\ \E f \in NormalizerMasterFiles : master_df = load_master_dataframe(f)
    /\ client_name = <<>>
    /\ resolved = Returned(<<>>)
    /\ rpc = "idle"
    /\ excel_files \in FileLists
    /\ fidx = 1
    /\ all_dataframes = <<>>
    /\ combined_df = EmptyDF
    /\ result_df = [columns |-> <<>>, rows |-> <<>>]
    /\ source_of = <<>>
    /\ clients = <<>>
    /\ cidx = 1
    /\ items = <<>>
    /\ pc = "load"
    /\ TransposerIdle
    /\ ExtractIdle

\* Lines 332-335: one file loaded, or skipped when loading it failed.
LoadExcelFile ==
    /\ pc = "load"
    /\ fidx <= Len(excel_files)
    /\ all_dataframes' =
          IF excel_files[fidx].loads
          THEN Append(all_dataframes, load_excel_file(excel_files[fidx]))
          ELSE all_dataframes
    /\ fidx' = fidx + 1
    /\ UNCHANGED <<extractVars, transposerVars, master_df, resolverVars, excel_files, combined_df, result_df,
                   source_of, clients, cidx, items, pc>>

\* Lines 337-338: nothing loaded, the run returns without output.
NoFiles ==
    /\ pc = "load"
    /\ fidx > Len(excel_files)
    /\ all_dataframes = <<>>
    /\ pc' = "no_files"
    /\ UNCHANGED <<extractVars, transposerVars, master_df, resolverVars, excel_files, fidx, all_dataframes,
                   combined_df, result_df, source_of, clients, cidx, items>>

\* Lines 340-343 and 184-216: the frames combined and numbered, the output
\* table seeded, the clients listed.
CombineAndSeed ==
    /\ pc = "load"
    /\ fidx > Len(excel_files)
    /\ all_dataframes # <<>>
    /\ combined_df' = Combine(all_dataframes)
    /\ result_df' = SeedResult(combined_df')
    /\ source_of' = SeedSources(combined_df')
    /\ clients' = UniqueClients(combined_df')
    /\ cidx' = 1
    /\ pc' = "client"
    /\ UNCHANGED <<extractVars, transposerVars, master_df, resolverVars, excel_files, fidx, all_dataframes, items>>

\* Lines 218-224: the next client's mapping resolved; an exception of the
\* resolver leaves run_processing.
BeginClient ==
    /\ pc = "client"
    /\ cidx <= Len(clients)
    /\ client_name' = clients[cidx]
    /\ resolved' = create_client_specific_mapping(master_df, clients[cidx])
    /\ IF resolved'.raised
       THEN pc' = "crashed" /\ UNCHANGED <<cidx, items>>
       ELSE IF resolved'.mapping = <<>>
            THEN pc' = "client" /\ cidx' = cidx + 1 /\ items' = <<>>
            ELSE pc' = "apply" /\ cidx' = cidx /\ items' = resolved'.mapping
    /\ UNCHANGED <<extractVars, transposerVars, master_df, rpc, excel_files, fidx, all_dataframes, combined_df,
                   result_df, source_of, clients>>

\* Lines 228-280: one item of mapping.items() applied for the client.
ApplyMapping ==
    /\ pc = "apply"
    /\ items # <<>>
    /\ LET original_col == Head(items)[1]
           normalized_col == Head(items)[2]
           client == clients[cidx]
       IN  /\ result_df' = ApplyItem(result_df, combined_df, client,
                                     original_col, normalized_col)
           /\ source_of' =
                 IF ItemWrites(result_df, combined_df, client, original_col, normalized_col)
                 THEN [r \in 1..Len(source_of) |->
                         IF r \in ClientIndices(combined_df, client)
                         THEN [source_of[r] EXCEPT ![normalized_col] = original_col]
                         ELSE source_of[r]]
                 ELSE source_of
    /\ items' = Tail(items)
    /\ IF Tail(items) = <<>>
       THEN pc' = "client" /\ cidx' = cidx + 1
       ELSE pc' = "apply" /\ cidx' = cidx
    /\ UNCHANGED <<extractVars, transposerVars, master_df, resolverVars, excel_files, fidx, all_dataframes,
                   combined_df, clients>>

\* Lines 356-393: the numeric columns forced to numbers, the table saved.
ForceNumericAndSave ==
    /\ pc = "client"
    /\ cidx > Len(clients)
    /\ result_df' = ForceNumeric(result_df)
    /\ pc' = "saved"
    /\ UNCHANGED <<extractVars, transposerVars, master_df, resolverVars, excel_files, fidx, all_dataframes,
                   combined_df, source_of, clients, cidx, items>>

Next ==
    \/ LoadExcelFile
    \/ NoFiles
    \/ CombineAndSeed
    \/ BeginClient
    \/ ApplyMapping
    \/ ForceNumericAndSave

Spec == Init /\ [][Next]_vars

----------------------------------------------------------------------------
(* The transposer (raw_data_etl.py).  The ledger is a matrix of cells:     *)
(* cells[r + 1][c + 1] is df_raw.iloc[r, c].  A header cell is missing,    *)
(* text that is no date, or a datetime; a cell of column A is missing or   *)
(* a caption.                                                              *)

\* self.dreams_locations, in declaration order: <<location_key, location_name>>.
dreams_locations ==
    << <<"Okotoks", "Okotoks">>,
       <<"Barlow NE", "Barlow NE">>,
       <<"Eastpoint SE", "Eastpoint SE">>,
       <<"Corp", "Corporate">>,
       <<"General", "General">> >>

\* A datetime cell: <<year, month, day>>.
Timestamp(d) == <<"datetime", d>>

\* A text cell of column A.
Caption(s) == <<"caption", s>>

\* A field of a record that holds a name.
Name(s) == <<"name", s>>

NaT == <<0, 0, 0>>

\* pd.to_datetime(cell, errors='coerce') and the format loop after it: a
\* datetime cell is its date, text that spells no date stays NaT.
to_datetime(cell) == IF cell[1] = "datetime" THEN cell[2] ELSE NaT

\* parsed_date > other
DateAfter(parsed_date, other) ==
    \/ parsed_date[1] > other[1]
    \/ parsed_date[1] = other[1] /\ parsed_date[2] > other[2]
    \/ parsed_date[1] = other[1] /\ parsed_date[2] = other[2] /\ parsed_date[3] > other[3]

\* strftime("%B")
MonthNames ==
    << "January", "February", "March", "April", "May", "June", "July",
       "August", "September", "October", "November", "December" >>

QuarterNames == <<"Q1", "Q2", "Q3", "Q4">>

\* datetime(2025, 6, 30)
ForecastCutoff == <<2025, 6, 30>>

\* One entry of date_info (the fields the emission reads).
DateItem(col_idx, parsed_date) ==
    [ col_idx |-> col_idx,
      month |-> MonthNames[parsed_date[2]],
      year |-> parsed_date[1],
      quarter |-> QuarterNames[((parsed_date[2] - 1) \div 3) + 1],
      date |-> <<"datestr", parsed_date>>,
      forecast_type |-> IF DateAfter(parsed_date, ForecastCutoff)
                        THEN "FORECAST" ELSE "ACTUAL" ]

\* The loop over row 0 from column B: one entry per cell that holds a date.
HeaderDates(cells) ==
    LET row == cells[1]
        IsDate(p) == p >= 2 /\ notna(row[p]) /\ to_datetime(row[p]) # NaT
        found == SelectSeq(Indices(Len(row)), IsDate)
    IN  [k \in 1..Len(found) |-> DateItem(found[k] - 1, to_datetime(row[found[k]]))]

\* A find_date_headers that is content with any number of dates.
find_date_headers_lenient(file) ==
    IF ~file.readable \/ file.cells = <<>>
    THEN [date_info |-> <<>>, df_raw |-> NoFrame]
    ELSE [date_info |-> HeaderDates(file.cells),
          df_raw |-> [none |-> FALSE, cells |-> file.cells]]

\* find_date_headers: (date_info, df_raw), or ([], None) when the workbook
\* does not read, has no row 0, or holds fewer than 3 dates.
find_date_headers(file) ==
    IF ~file.readable \/ file.cells = <<>>
    THEN [date_info |-> <<>>, df_raw |-> NoFrame]
    ELSE IF Len(HeaderDates(file.cells)) >= 3
         THEN [date_info |-> HeaderDates(file.cells),
               df_raw |-> [none |-> FALSE, cells |-> file.cells]]
         ELSE [date_info |-> <<>>, df_raw |-> NoFrame]

\* An extract_categories_from_column_a that numbers the rows it keeps.
extract_categories_renumbered(cells) ==
    LET Category(p) == NameOf(Strip(NameChars(cells[p][1][2])))
        Kept(p) == notna(cells[p][1]) /\ Category(p) # ""
        kept == SelectSeq(Indices(Len(cells)), Kept)
    IN  [k \in 1..Len(kept) |->
            [category |-> Category(kept[k]), actual_row |-> k - 1]]

\* extract_categories_from_column_a
extract_categories_from_column_a(cells) ==
    LET Category(p) == NameOf(Strip(NameChars(cells[p][1][2])))
        Kept(p) == notna(cells[p][1]) /\ Category(p) # ""
        kept == SelectSeq(Indices(Len(cells)), Kept)
    IN  [k \in 1..Len(kept) |->
            [category |-> Category(kept[k]), actual_row |-> kept[k] - 1]]

location_specific_fields ==
    <<"Okotoks Revenue", "Barlow NE Revenue", "Eastpoint SE Revenue", "Corp Revenue">>

NotSpecific == [specific |-> FALSE, location |-> "None"]

\* An is_location_specific_field that finds no field location-specific.
is_location_specific_never(field_name) == NotSpecific

\* is_location_specific_field: (is_location_specific, field_location)
is_location_specific_field(field_name) ==
    LET field_clean == Strip(NameChars(field_name))
    IN  IF \E i \in 1..Len(location_specific_fields) :
                 field_clean = NameChars(location_specific_fields[i])
        THEN IF Contains(field_clean, NameChars("Okotoks"))
             THEN [specific |-> TRUE, location |-> "Okotoks"]
             ELSE IF Contains(field_clean, NameChars("Barlow NE"))
             THEN [specific |-> TRUE, location |-> "Barlow NE"]
             ELSE IF Contains(field_clean, NameChars("Eastpoint SE"))
             THEN [specific |-> TRUE, location |-> "Eastpoint SE"]
             ELSE IF Contains(field_clean, NameChars("Corp"))
             THEN [specific |-> TRUE, location |-> "Corp"]
             ELSE NotSpecific
        ELSE NotSpecific

\* A should_include_field_for_location that includes every field everywhere.
should_include_everywhere(field_name, current_location_key) == TRUE

should_include_field_for_location(field_name, current_location_key) ==
    LET found == is_location_specific_field(field_name)
    IN  IF found.specific
        THEN found.location = current_location_key
        ELSE current_location_key = "General"

\* Lines 174-185: the value of a ledger cell as a number.
CleanValue(value) ==
    CASE value[1] = "null" -> Num(0)
      [] value[1] = "numtext" -> Num(value[2])
      [] value[1] \in {"text", "caption"} -> Num(0)
      [] value[1] = "num" -> Num(value[2])
      [] OTHER -> Num(0)

\* Lines 165-192: the categories added to one record, in order.
RECURSIVE AddCategories(_, _, _, _, _)
AddCategories(record, cells, col_idx, location_key, categories) ==
    IF categories = <<>> THEN record
    ELSE LET category == Head(categories).category
             actual_row == Head(categories).actual_row
             value == IF col_idx < Len(cells[1])
                      THEN CleanValue(cells[actual_row + 1][col_idx + 1])
                      ELSE Num(0)
             next == IF category # "" /\ category # "nan"
                     THEN DictSet(record, category,
                                  IF should_include_field_for_location(category, location_key)
                                  THEN value ELSE Num(0))
                     ELSE record
         IN  AddCategories(next, cells, col_idx, location_key, Tail(categories))

\* Lines 155-194: the record of one date and one location.
Record(cells, date_item, location, categories) ==
    AddCategories(<< <<"Location", Name(location[2])>>,
                     <<"Month", Name(date_item.month)>>,
                     <<"Year", Num(date_item.year)>>,
                     <<"Quarter", Name(date_item.quarter)>>,
                     <<"Date", date_item.date>>,
                     <<"Forecast Type", Name(date_item.forecast_type)>> >>,
                  cells, date_item.col_idx, location[1], categories)

\* create_raw_data_records: for each date, for each location, one record.
create_raw_data_records(cells, dates, categories) ==
    LET nloc == Len(dreams_locations)
    IN  [k \in 1..(Len(dates) * nloc) |->
            Record(cells, dates[((k - 1) \div nloc) + 1],
                   dreams_locations[((k - 1) % nloc) + 1], categories)]

standard_cols == <<"Location", "Month", "Year", "Quarter", "Date", "Forecast Type">>

\* save_raw_data: the frame of the records with the standard columns first
\* and the other columns sorted.
save_raw_data(records) ==
    LET keys == [i \in 1..Len(records[1]) |-> records[1][i][1]]
        NotStandard(c) == c \notin SeqToSet(standard_cols)
        column_order == standard_cols \o Sorted(SelectSeq(keys, NotStandard))
    IN  [columns |-> column_order,
         rows |-> [r \in 1..Len(records) |->
                     [c \in SeqToSet(column_order) |-> DictGet(records[r], c)]]]

----------------------------------------------------------------------------
(* Inputs of the transposer runs.                                          *)

MaxDateCols == 4

MaxBodyRows == 2

\* The date a header cell of column c holds when it holds one: the months
\* from May 2025 on, so that the cutoff of 30 June 2025 falls among them.
HeaderDate(c) == <<2025, 4 + c, 30>>

\* Cells of column A below row 0.
Captions ==
    {Null, Caption("Okotoks Revenue"), Caption(" Barlow NE Revenue "),
     Caption("Total Location Revenue"), Caption("Location"), Caption("  ")}

\* The value under row r and column c of the body: each cell its own number.
BodyValue(r, c) == Num(10 * r + c)

\* Cell A1 together with the cell under row 2 and column 1 (11 is the value
\* of the cell above that one).
Variants ==
    { [corner |-> Null, varied |-> Num(11)],
      [corner |-> Null, varied |-> Null],
      [corner |-> Null, varied |-> NumText(7)],
      [corner |-> Null, varied |-> Text(1)],
      [corner |-> Caption("EBITDA"), varied |-> Num(11)] }

\* A header row whose first two date cells hold the same date.
RepeatedHeader ==
    [c \in 1..MaxDateCols |->
        IF c = 2 THEN Timestamp(HeaderDate(1)) ELSE Timestamp(HeaderDate(c))]

\* Header rows: a date in every column but at most two; of those the first
\* is empty and the second holds text that is no date.
Headers ==
    {[c \in 1..MaxDateCols |->
         IF c \notin skipped THEN Timestamp(HeaderDate(c))
         ELSE IF \A d \in skipped : c <= d THEN Null ELSE Text(1)] :
        skipped \in {S \in SUBSET (1..MaxDateCols) : Cardinality(S) <= 2}}
    \cup {RepeatedHeader}

LedgerCells(header, captions, variant) ==
    [p \in 1..(MaxBodyRows + 1) |->
        [q \in 1..(MaxDateCols + 1) |->
            IF p = 1 THEN (IF q = 1 THEN variant.corner ELSE header[q - 1])
            ELSE IF q = 1 THEN captions[p - 1]
            ELSE IF p = 3 /\ q = 2 THEN variant.varied
            ELSE BodyValue(p - 1, q - 1)]]

DreamsFiles ==
    {[readable |-> FALSE, cells |-> <<>>]}
    \cup {[readable |-> TRUE, cells |-> LedgerCells(h, caps, v)] :
            h \in Headers, caps \in [1..MaxBodyRows -> Captions], v \in Variants}

----------------------------------------------------------------------------
(* create_dreams_raw_data, phase by phase.                                 *)

InitTranspose ==
    /\ master_df = MasterNone
    /\ client_name = <<>>
    /\ resolved = Returned(<<>>)
    /\ rpc = "idle"
    /\ NormalizerIdle
    /\ dreams_file \in DreamsFiles
    /\ df_raw = NoFrame
    /\ date_info = <<>>
    /\ categories_with_rows = <<>>
    /\ raw_data_records = <<>>
    /\ raw_data_df = [columns |-> <<>>, rows |-> <<>>]
    /\ tpc = "start"
    /\ ExtractIdle

\* Lines 364-368: the header row read; without dates the transform fails.
FindDateHeaders ==
    /\ tpc = "start"
    /\ date_info' = find_date_headers(dreams_file).date_info
    /\ df_raw' = find_date_headers(dreams_file).df_raw
    /\ tpc' = IF date_info' = <<>> \/ df_raw'.none THEN "failed" ELSE "dates"
    /\ UNCHANGED <<extractVars, master_df, resolverVars, normalizerVars, dreams_file,
                   categories_with_rows, raw_data_records, raw_data_df>>

\* Lines 371-375: column A read; without categories the transform fails.
ExtractCategories ==
    /\ tpc = "dates"
    /\ categories_with_rows' = extract_categories_from_column_a(df_raw.cells)
    /\ tpc' = IF categories_with_rows' = <<>> THEN "failed" ELSE "categories"
    /\ UNCHANGED <<extractVars, master_df, resolverVars, normalizerVars, dreams_file, df_raw,
                   date_info, raw_data_records, raw_data_df>>

\* Lines 378-382: the records emitted.
CreateRawDataRecords ==
    /\ tpc = "categories"
    /\ raw_data_records' =
          create_raw_data_records(df_raw.cells, date_info, categories_with_rows)
    /\ tpc' = IF raw_data_records' = <<>> THEN "failed" ELSE "records"
    /\ UNCHANGED <<extractVars, master_df, resolverVars, normalizerVars, dreams_file, df_raw,
                   date_info, categories_with_rows, raw_data_df>>

\* Line 385: the records saved.
SaveRawData ==
    /\ tpc = "records"
    /\ raw_data_df' = save_raw_data(raw_data_records)
    /\ tpc' = "saved"
    /\ UNCHANGED <<extractVars, master_df, resolverVars, normalizerVars, dreams_file, df_raw,
                   date_info, categories_with_rows, raw_data_records>>

NextTranspose ==
    \/ FindDateHeaders
    \/ ExtractCategories
    \/ CreateRawDataRecords
    \/ SaveRawData

SpecTranspose == InitTranspose /\ [][NextTranspose]_vars

\* run_processing runs on as long as it has a step to take.
SpecFair == Init /\ [][Next]_vars /\ WF_vars(Next)

----------------------------------------------------------------------------
(* Calls of extract_client_name: file names put together from a stem, up   *)
(* to MaxPieces pieces that are or resemble the known suffixes, and an     *)
(* ending.                                                                 *)

MaxPieces == 2

Stems == { <<>>, <<"A">>, <<" ", "A", " ">> }

\* The known suffixes, " Data" without its blank, and " Data" in lower case.
Pieces ==
    SeqToSet(suffixes) \cup { <<"D","a","t","a">>, <<" ","d","a","t","a">> }

Endings ==
    { <<>>, Ext_xlsx, Ext_xls, Ext_xls \o Ext_xlsx, <<".","X","L","S","X">> }

RECURSIVE Join(_)
Join(parts) == IF parts = <<>> THEN <<>> ELSE Head(parts) \o Join(Tail(parts))

FileNames ==
    {stem \o Join(pieces) \o ending :
        stem \in Stems,
        pieces \in UNION {[1..n -> Pieces] : n \in 0..MaxPieces},
        ending \in Endings}

InitExtract ==
    /\ master_df = MasterNone
    /\ client_name = <<>>
    /\ resolved = Returned(<<>>)
    /\ rpc = "idle"
    /\ NormalizerIdle
    /\ TransposerIdle
    /\ filename_arg \in FileNames
    /\ extracted = [done |-> FALSE, name |-> <<>>]

CallExtract ==
    /\ ~extracted.done
    /\ extracted' = [done |-> TRUE, name |-> extract_client_name(filename_arg)]
    /\ UNCHANGED <<master_df, resolverVars, normalizerVars, transposerVars, filename_arg>>

NextExtract == CallExtract

SpecExtract == InitExtract /\ [][NextExtract]_vars

----------------------------------------------------------------------------
(* Properties of the resolver.                                             *)

FixesOf(client) == DictItems(DictGet(client_fixes, client))

\* C5: for a client with manual overrides, the returned mapping sends every
\* overridden original name to the override's canonical name, whatever the
\* reference table (present, empty or missing) holds.
C5_OverridesAlwaysApplied ==
    (rpc = "returned" /\ DictHas(client_fixes, client_name)) =>
        /\ ~resolved.raised
        /\ \A fix \in FixesOf(client_name) :
              /\ DictHas(resolved.mapping, fix[1])
              /\ DictGet(resolved.mapping, fix[1]) = fix[2]

\* C6: with the reference table missing, the call returns what it returns
\* for a present table without rows.
C6_MissingBehavesAsEmpty ==
    (rpc = "returned" /\ master_df.none) =>
        resolved = create_client_specific_mapping(MasterTable(<<>>), client_name)

\* C7: the call returns a mapping for every client name; it never raises.
C7_ResolveNeverRaises == rpc = "returned" => ~resolved.raised

RowOrders(n) ==
    {p \in [1..n -> 1..n] : \A i, j \in 1..n : i # j => p[i] # p[j]}

Permuted(rows, p) == [i \in 1..Len(rows) |-> rows[p[i]]]

NoDuplicateOriginal(rows) ==
    \A i, j \in 1..Len(rows) :
        (i # j /\ rows[i].OriginalColumnNames # NaNName)
            => rows[i].OriginalColumnNames # rows[j].OriginalColumnNames

MatchedRows == ClientMappings(master_df.rows, Split(client_name)[1])

HasClientMatch ==
    /\ ~master_df.none
    /\ Split(client_name) # <<>>
    /\ Len(MatchedRows) > 0

\* C8: for a client with a reference match and no original name repeated
\* among its matched rows, every reordering of the reference table yields the
\* same set of original -> canonical pairs.
C8_RowOrderIndependent ==
    (rpc = "returned" /\ HasClientMatch /\ NoDuplicateOriginal(MatchedRows)) =>
        \A p \in RowOrders(Len(master_df.rows)) :
            LET other == create_client_specific_mapping(
                             MasterTable(Permuted(master_df.rows, p)), client_name)
            IN  /\ ~other.raised
                /\ DictItems(other.mapping) = DictItems(resolved.mapping)

C8_Witness ==
    /\ rpc = "returned"
    /\ HasClientMatch
    /\ NoDuplicateOriginal(MatchedRows)
    /\ Len(MatchedRows) >= 2
    /\ MatchedRows[1] # MatchedRows[2]
    /\ Cardinality(DictItems(resolved.mapping)) >= 2

----------------------------------------------------------------------------
(* Properties of the normalizer.                                           *)

Seeded == pc \in {"client", "apply", "saved"}

RowIndices == 1..Len(result_df.rows)

\* C1: in the saved output every cell of every financial canonical column
\* (listed as financial, or named with "Revenue" or "Expense") is a number
\* or null, never text.
C1_FinancialCellsNumericOrNull ==
    pc = "saved" =>
        \A c \in SeqToSet(result_df.columns) :
            (c \in SeqToSet(normalized_columns) /\ IsFinancial(c)) =>
                \A r \in RowIndices : result_df.rows[r][c][1] \in {"num", "null"}

\* A text cell of the raw table was mapped to a financial column of its
\* client, and the run was saved.
C1_Witness ==
    /\ pc = "saved"
    /\ \E r \in RowIndices :
          LET m == create_client_specific_mapping(
                       master_df, combined_df.rows[r]["Client Name"][2])
          IN  /\ ~m.raised
              /\ \E it \in DictItems(m.mapping) :
                    /\ it[1] \in combined_df.columns
                    /\ it[2] \in SeqToSet(normalized_columns)
                    /\ IsFinancial(it[2])
                    /\ combined_df.rows[r][it[1]][1] = "text"
                    /\ source_of[r][it[2]] = it[1]
                    /\ result_df.rows[r][it[2]] = Null

\* The output columns of row r that hold a value written from raw column s.
CopiesOf(r, s) ==
    {c \in DOMAIN source_of[r] : source_of[r][c] = s /\ notna(result_df.rows[r][c])}

\* C4: every cell of the combined raw table contributes to at most one
\* output cell; no raw value stands in two output columns, also when its
\* column is carried over as a standard column and is the original name of
\* a mapping rule.
C4_SourceCellInOneOutputCell ==
    \A r \in 1..Len(source_of) :
        \A s \in combined_df.columns : Cardinality(CopiesOf(r, s)) <= 1

\* The item at the head of items targets a standard column that already
\* holds a value in one of the client's rows.
GuardedItemPending ==
    /\ pc = "apply"
    /\ items # <<>>
    /\ Head(items)[1] \in combined_df.columns
    /\ Head(items)[2] \in SeqToSet(normalized_columns)
    /\ Head(items)[2] \in SeqToSet(standard_columns)
    /\ \E r \in ClientIndices(combined_df, clients[cidx]) :
          result_df.rows[r][Head(items)[2]] # Null

\* C9: a mapping rule that targets a standard column already holding a
\* non-null value in one of the client's rows is skipped: the step that
\* handles it leaves the output table as it was.
C9_StandardColumnGuard ==
    [][GuardedItemPending => (result_df' = result_df /\ source_of' = source_of)]_vars

\* Such a rule is pending, its raw column differs from what the standard
\* column holds, and one of the client's rows has no value there.
C9_Witness ==
    /\ GuardedItemPending
    /\ \E r \in ClientIndices(combined_df, clients[cidx]) :
          result_df.rows[r][Head(items)[2]] = Null
    /\ \E r \in ClientIndices(combined_df, clients[cidx]) :
          combined_df.rows[r][Head(items)[1]] # result_df.rows[r][Head(items)[2]]

NonStandardSorted ==
    SelectSeq(sorted_normalized, LAMBDA c : c \notin SeqToSet(standard_columns))

NumStandardPresent ==
    Cardinality({c \in SeqToSet(standard_columns) : c \in combined_df.columns})

----------------------------------------------------------------------------
(* Properties of the transposer.                                           *)

Emitted == tpc \in {"records", "saved"}

DateIndices == 1..Len(date_info)

EntityIndices == 1..Len(dreams_locations)

General == Len(dreams_locations)

\* The record emitted for the d-th date and the e-th entity.
RecordAt(d, e) == raw_data_records[(d - 1) * Len(dreams_locations) + e]

Labels == {categories_with_rows[k].category : k \in 1..Len(categories_with_rows)}

\* The per-location revenue label of each location key.
RevenueLabel ==
    [key \in {"Okotoks", "Barlow NE", "Eastpoint SE", "Corp"} |->
        CASE key = "Okotoks" -> "Okotoks Revenue"
          [] key = "Barlow NE" -> "Barlow NE Revenue"
          [] key = "Eastpoint SE" -> "Eastpoint SE Revenue"
          [] key = "Corp" -> "Corp Revenue"]

\* The entity whose row carries the label.
HolderOf(label) ==
    IF \E key \in DOMAIN RevenueLabel : RevenueLabel[key] = label
    THEN CHOOSE key \in DOMAIN RevenueLabel : RevenueLabel[key] = label
    ELSE "General"

\* The last row of the ledger that carries the label.
LastRowOf(label) ==
    CHOOSE r \in 0..Len(df_raw.cells) :
        /\ \E k \in 1..Len(categories_with_rows) :
              categories_with_rows[k] = [category |-> label, actual_row |-> r]
        /\ \A k \in 1..Len(categories_with_rows) :
              categories_with_rows[k].category = label
                  => categories_with_rows[k].actual_row <= r

\* The ledger's value for the label at the d-th date, as a number.
LedgerValue(label, d) ==
    CleanValue(df_raw.cells[LastRowOf(label) + 1][date_info[d].col_idx + 1])

\* C2: in the emitted rows, for every date and every category label, a
\* per-location revenue label holds its ledger value in the row of its own
\* entity and 0 in every other entity's row; any other label holds its
\* ledger value in the General row and 0 in every other entity's row.  (Of
\* a label that stands on several rows the ledger value is that of the last.)
C2_EntityAttribution ==
    Emitted =>
        \A d \in DateIndices, e \in EntityIndices, label \in Labels :
            DictGet(RecordAt(d, e), label) =
                IF dreams_locations[e][1] = HolderOf(label)
                THEN LedgerValue(label, d)
                ELSE Num(0)

\* Records emitted where one date has a location revenue in its own entity's
\* row only and a total in the General row only.
C2_Witness ==
    /\ Emitted
    /\ \E d \in DateIndices :
          /\ {"Okotoks Revenue", "Total Location Revenue"} \subseteq Labels
          /\ DictGet(RecordAt(d, 1), "Okotoks Revenue") \notin {Num(0)}
          /\ DictGet(RecordAt(d, General), "Okotoks Revenue") = Num(0)
          /\ DictGet(RecordAt(d, General), "Total Location Revenue") \notin {Num(0)}
          /\ DictGet(RecordAt(d, 1), "Total Location Revenue") = Num(0)

RECURSIVE SumTo(_, _)
SumTo(s, n) == IF n = 0 THEN 0 ELSE s[n] + SumTo(s, n - 1)

FieldOrZero(record, label) ==
    IF DictHas(record, label) THEN DictGet(record, label)[2] ELSE 0

\* The sum of all location-specific revenue fields across the entity rows
\* of the d-th date.
LocationRevenueSum(d) ==
    LET nf == Len(location_specific_fields)
        terms == [k \in 1..(Len(dreams_locations) * nf) |->
                     FieldOrZero(RecordAt(d, ((k - 1) \div nf) + 1),
                                 location_specific_fields[((k - 1) % nf) + 1])]
    IN  SumTo(terms, Len(terms))

\* The sum of the ledger's own location revenue cells at the d-th date.
LedgerLocationSum(d) ==
    LET terms == [k \in 1..Len(location_specific_fields) |->
                     IF location_specific_fields[k] \in Labels
                     THEN LedgerValue(location_specific_fields[k], d)[2]
                     ELSE 0]
    IN  SumTo(terms, Len(terms))

HasTotal == "Total Location Revenue" \in Labels

\* C3 as stated: for any date, the sum of all location-specific revenue
\* fields across the entity rows equals the total field of that date's
\* General row.
C3_LocationSumEqualsTotal ==
    (Emitted /\ HasTotal) =>
        \A d \in DateIndices :
            LocationRevenueSum(d) =
                DictGet(RecordAt(d, General), "Total Location Revenue")[2]

\* C3, amended: for any date, the sum of all location-specific revenue
\* fields across the entity rows equals the sum of the ledger's own location
\* revenue cells for that date, each counted once, and the total field of
\* the General row is the value of the ledger's total cell.
C3_LocationSumEqualsLedger ==
    Emitted =>
        \A d \in DateIndices :
            /\ LocationRevenueSum(d) = LedgerLocationSum(d)
            /\ HasTotal =>
                  DictGet(RecordAt(d, General), "Total Location Revenue") =
                      LedgerValue("Total Location Revenue", d)

\* Records emitted from a ledger whose total cell agrees with its location
\* revenue cells at some date: there the sum of the fields is the total.
C3_Witness ==
    /\ Emitted
    /\ HasTotal
    /\ \E d \in DateIndices :
          /\ LocationRevenueSum(d) > 0
          /\ LocationRevenueSum(d) =
                DictGet(RecordAt(d, General), "Total Location Revenue")[2]

----------------------------------------------------------------------------
(* Properties of loading and combining.                                    *)

\* The discovered files that load, in discovery order.
LoadedFiles == SelectSeq(excel_files, LAMBDA f : f.loads)

\* The number of rows of the first n of them.
RECURSIVE RowsOfFirst(_)
RowsOfFirst(n) == IF n = 0 THEN 0 ELSE Len(LoadedFiles[n].rows) + RowsOfFirst(n - 1)

\* C11: the Record IDs of the output rows are exactly 1..N, N the number of
\* rows of the files that loaded: the k-th row of the i-th loaded file, in
\* discovery order, is the output row after all rows of the loaded files
\* before it and carries that position as its Record ID; a file that failed
\* to load takes no id.
C11_RecordIdsInDiscoveryOrder ==
    Seeded =>
        /\ Len(result_df.rows) = RowsOfFirst(Len(LoadedFiles))
        /\ \A i \in 1..Len(LoadedFiles) :
              \A k \in 1..Len(LoadedFiles[i].rows) :
                  LET r == RowsOfFirst(i - 1) + k
                  IN  /\ result_df.rows[r]["Record ID"] = Num(r)
                      /\ result_df.rows[r]["File Name"] = Str(LoadedFiles[i].name)
                      /\ \A c \in LoadedFiles[i].columns :
                            combined_df.rows[r][c] = LoadedFiles[i].rows[k][c]

\* The output is saved, a file that failed to load stands before one that
\* loaded, and the output has two rows or more.
C11_Witness ==
    /\ pc = "saved"
    /\ Len(result_df.rows) >= 2
    /\ \E i, j \in 1..Len(excel_files) :
          i < j /\ ~excel_files[i].loads /\ excel_files[j].loads

----------------------------------------------------------------------------
(* Properties of the transposer's phases.                                  *)

\* The number of header cells of the workbook, from column B on, that hold
\* a date.
ValidDateCount ==
    IF ~dreams_file.readable \/ dreams_file.cells = <<>> THEN 0
    ELSE Cardinality({q \in 2..Len(dreams_file.cells[1]) :
                         dreams_file.cells[1][q][1] = "datetime"})

\* Some cell of column A holds text other than whitespace.
HasUsableCaption ==
    /\ dreams_file.readable
    /\ \E p \in 1..Len(dreams_file.cells) :
          /\ dreams_file.cells[p][1][1] = "caption"
          /\ \E i \in 1..Len(NameChars(dreams_file.cells[p][1][2])) :
                NameChars(dreams_file.cells[p][1][2])[i] \notin Whitespace

NothingEmitted ==
    /\ raw_data_records = <<>>
    /\ raw_data_df = [columns |-> <<>>, rows |-> <<>>]

\* C12: with fewer than 3 valid dates in the header the transform fails at
\* the first phase, with no category in column A at the second; a failed
\* transform has emitted no record and saved no table; records exist only
\* after both phases succeeded, and then one for every date and entity, and
\* a table is saved only after the records were emitted.
C12_TotalFailureOnEmptyPredecessor ==
    /\ (tpc # "start" /\ ValidDateCount < 3) => tpc = "failed"
    /\ (tpc \notin {"start", "dates"} /\ ~HasUsableCaption) => tpc = "failed"
    /\ tpc = "failed" => NothingEmitted
    /\ raw_data_records # <<>> =>
          /\ ValidDateCount >= 3
          /\ HasUsableCaption
          /\ Len(raw_data_records) = ValidDateCount * Len(dreams_locations)
    /\ raw_data_df.rows # <<>> =>
          (tpc = "saved" /\ Len(raw_data_df.rows) = Len(raw_data_records))

\* The transform failed on a ledger with two dates and a category.
C12_Witness ==
    /\ tpc = "failed"
    /\ ValidDateCount = 2
    /\ HasUsableCaption
    /\ NothingEmitted

----------------------------------------------------------------------------
(* Properties of single mapping rules.                                     *)

\* The combined rows of the client named name.
RowsOfClient(name) ==
    {r \in 1..Len(combined_df.rows) : combined_df.rows[r]["Client Name"] = Str(name)}

OutputIsLoadedRows ==
    /\ Len(result_df.rows) = RowsOfFirst(Len(LoadedFiles))
    /\ \A i \in 1..Len(LoadedFiles) :
          \A k \in 1..Len(LoadedFiles[i].rows) :
              LET r == RowsOfFirst(i - 1) + k
              IN  /\ result_df.rows[r]["File Name"] = Str(LoadedFiles[i].name)
                  /\ result_df.rows[r]["Client Name"] =
                        Str(extract_client_name(LoadedFiles[i].name))

\* C14: a file that fails to load is skipped and the run goes on: whenever
\* some file loads, the run comes to save an output, whose rows are the
\* rows of the files that loaded, in discovery order, and none of a file
\* that failed; only with no file loaded is there no output.
C14_LoadedFilesReachOutput ==
    (pc = "load" /\ LoadedFiles # <<>>) ~> (pc = "saved" /\ OutputIsLoadedRows)

----------------------------------------------------------------------------
(* Properties of extract_client_name.                                      *)

Prefixes(s) == {SubSeq(s, 1, n) : n \in 0..Len(s)}

Blanks(n) == [i \in 1..n |-> " "]

\* The known extension the name ends with, if any.
KnownExtension(name) ==
    IF EndsWith(name, Ext_xlsx) THEN Ext_xlsx
    ELSE IF EndsWith(name, Ext_xls) THEN Ext_xls
    ELSE <<>>

\* core is base without the first suffix of the list that base ends with,
\* or base itself when it ends with none.
WithoutFirstSuffix(base, core) ==
    \/ /\ \A i \in 1..Len(suffixes) : ~EndsWith(base, suffixes[i])
       /\ core = base
    \/ \E i \in 1..Len(suffixes) :
          /\ EndsWith(base, suffixes[i])
          /\ \A j \in 1..(i - 1) : ~EndsWith(base, suffixes[j])
          /\ base = core \o suffixes[i]

\* trimmed is core without the whitespace around it.
Trimmed(core, trimmed) ==
    /\ \E a, b \in 0..Len(core) : core = Blanks(a) \o trimmed \o Blanks(b)
    /\ trimmed # <<>> =>
          (Head(trimmed) \notin Whitespace /\ trimmed[Len(trimmed)] \notin Whitespace)

\* C15: extract_client_name returns the file name with the known extension
\* removed, then with the first suffix of the list that the rest ends with
\* removed, and no second one, then trimmed of surrounding whitespace.
C15_ExtensionThenFirstSuffixThenTrim ==
    extracted.done =>
        \E base \in Prefixes(filename_arg), core \in Prefixes(filename_arg) :
            /\ filename_arg = base \o KnownExtension(filename_arg)
            /\ WithoutFirstSuffix(base, core)
            /\ Trimmed(core, extracted.name)

\* The name ends in " Data Raw Data" and an extension: " Raw Data" went,
\* " Data" before it stayed.
C15_Witness ==
    /\ extracted.done
    /\ filename_arg = <<"A">> \o suffixes[2] \o suffixes[1] \o Ext_xlsx
    /\ extracted.name = <<"A">> \o suffixes[2]

----------------------------------------------------------------------------
(* Properties of the resolver's two ways to a mapping.                     *)

\* The first whitespace-delimited token of name stands after its first a
\* characters and is n characters long.
IsFirstToken(name, a, n) ==
    /\ a + n <= Len(name)
    /\ \A i \in 1..a : name[i] \in Whitespace
    /\ \A i \in (a + 1)..(a + n) : name[i] \notin Whitespace
    /\ (a + n = Len(name) \/ name[a + n + 1] \in Whitespace)

\* The first token of name, when it has one.
FirstTokens(name) ==
    {SubSeq(name, x[1] + 1, x[1] + x[2]) :
        x \in {y \in (0..Len(name)) \X (1..Len(name)) : IsFirstToken(name, y[1], y[2])}}

\* The client field holds tok somewhere, letter case aside.
FieldHolds(field, tok) ==
    /\ field # NaNText
    /\ \E a \in 0..(Len(field) - Len(tok)) :
          \A i \in 1..Len(tok) : LowerChar(field[a + i]) = LowerChar(tok[i])

\* The rows of the table whose client field holds the first token of the
\* client name, by their places in the table.
MatchingPlaces ==
    LET tokens == FirstTokens(client_name)
    IN  {i \in 1..Len(master_df.rows) :
            \E tok \in tokens : FieldHolds(master_df.rows[i].ClientName, tok)}

NamesBoth(row) ==
    row.OriginalColumnNames # NaNName /\ row.NormalizedColumnName # NaNName

\* The pairs of the rows at places, of rows with the same original name the
\* last one only; a row that lacks a name gives no pair.
LastWinsPairs(places) ==
    {<<master_df.rows[i].OriginalColumnNames, master_df.rows[i].NormalizedColumnName>> :
        i \in {k \in places :
                 /\ NamesBoth(master_df.rows[k])
                 /\ \A j \in places :
                       (j > k /\ NamesBoth(master_df.rows[j])) =>
                           master_df.rows[j].OriginalColumnNames
                               # master_df.rows[k].OriginalColumnNames}}

\* pairs with the pairs of fixes put over them.
Overlaid(pairs, fixes) ==
    {p \in pairs : \A f \in fixes : f[1] # p[1]} \cup fixes

OverridesOf(client) ==
    IF DictHas(client_fixes, client) THEN FixesOf(client) ELSE {}

HasMatchingRow == ~master_df.none /\ MatchingPlaces # {}

NoMatchingRow ==
    /\ ~master_df.none
    /\ FirstTokens(client_name) # {}
    /\ MatchingPlaces = {}

\* The original names of the table.
TableOriginals ==
    {master_df.rows[i].OriginalColumnNames : i \in 1..Len(master_df.rows)} \ {NaNName}

\* Some row of the table pairs the original name with the canonical name.
Paired(original, canonical) ==
    \E i \in 1..Len(master_df.rows) :
        /\ master_df.rows[i].OriginalColumnNames = original
        /\ master_df.rows[i].NormalizedColumnName = canonical

\* canonical is the first name of the registry, in declaration order, that
\* the table pairs with the original name.
FirstPaired(original, canonical) ==
    \E k \in 1..Len(normalized_columns) :
        /\ normalized_columns[k] = canonical
        /\ Paired(original, canonical)
        /\ \A j \in 1..(k - 1) : ~Paired(original, normalized_columns[j])

OtherClientsRows ==
    {r \in 1..Len(result_df.rows) :
        combined_df.rows[r]["Client Name"] # Str(clients[cidx])}

\* C18: while one client is processed (its mapping resolved, each of its
\* items applied), every cell of every row of another client stays as it
\* was, whichever place the client has in the order of processing.
C18_StepWritesOnlyClientRows ==
    [][(pc \in {"client", "apply"} /\ cidx <= Len(clients)) =>
          /\ Len(result_df'.rows) = Len(result_df.rows)
          /\ result_df'.columns = result_df.columns
          /\ \A r \in OtherClientsRows : result_df'.rows[r] = result_df.rows[r]]_vars

\* A canonical column written from a source column in a row of one client,
\* and still empty in a row of another client of the same run.
C18_Witness ==
    /\ pc \in {"client", "apply"}
    /\ Len(clients) = 2
    /\ \E c \in SeqToSet(result_df.columns) \ SeqToSet(standard_columns) :
          \E r, s \in 1..Len(result_df.rows) :
              /\ combined_df.rows[r]["Client Name"] # combined_df.rows[s]["Client Name"]
              /\ source_of[r][c] # NoSource
              /\ notna(result_df.rows[r][c])
              /\ source_of[s][c] = NoSource
              /\ result_df.rows[s][c] = Null

\* The cell of row r and column c was last written from a source column by
\* a mapping item.
WrittenFromSource(r, c) ==
    /\ source_of[r][c] # NoSource
    /\ ~(source_of[r][c] = c /\ c \in SeqToSet(standard_columns))

\* The source cell the output cell of row r and column c was written from.
SourceCell(r, c) == combined_df.rows[r][source_of[r][c]]

\* The source column holds a cell that is text, in any row of the table.
HoldsText(original_col) ==
    \E r \in 1..Len(combined_df.rows) :
        combined_df.rows[r][original_col][1] \in {"text", "numtext", "str"}

\* The canonical name is one of the four financial names or has 'Revenue'
\* or 'Expense' in it.
FinancialTarget(c) ==
    \/ c \in {"Total Revenue", "Total Expenses", "Administrative", "Annualized Revenue"}
    \/ \E a \in 0..Len(NameChars(c)) :
          \E w \in {Revenue, Expense} :
              /\ a + Len(w) <= Len(NameChars(c))
              /\ SubSeq(NameChars(c), a + 1, a + Len(w)) = w

\* C19: in the output table a cell written from a source cell that is no
\* number is null when the target is financial or the source column is not
\* numeric throughout, a cell written from a number or from the text of a
\* number holds that number, a cell no mapping wrote stays empty, and the
\* run is left only through a failure of the resolver, never of a parse.
C19_UnparsableBecomesNull ==
    /\ Seeded =>
          \A r \in RowIndices :
              \A c \in SeqToSet(result_df.columns) :
                  /\ (WrittenFromSource(r, c) /\ SourceCell(r, c)[1] = "text"
                        /\ (FinancialTarget(c) \/ HoldsText(source_of[r][c])))
                     => result_df.rows[r][c] = Null
                  /\ (WrittenFromSource(r, c) /\ SourceCell(r, c)[1] \in {"num", "numtext"})
                     => result_df.rows[r][c] = <<"num", SourceCell(r, c)[2]>>
                  /\ source_of[r][c] = NoSource => result_df.rows[r][c] = Null
    /\ pc = "crashed" => resolved.raised

\* The saved table has a cell written from text that is no number, now
\* null, and a cell written from the text of a number, now that number.
C19_Witness ==
    /\ pc = "saved"
    /\ \E r \in RowIndices :
          \E c \in SeqToSet(result_df.columns) :
              /\ WrittenFromSource(r, c)
              /\ SourceCell(r, c)[1] = "text"
              /\ result_df.rows[r][c] = Null
    /\ \E r \in RowIndices :
          \E c \in SeqToSet(result_df.columns) :
              /\ WrittenFromSource(r, c)
              /\ SourceCell(r, c)[1] = "numtext"
              /\ result_df.rows[r][c][1] = "num"

\* The rows of the sheet, counted from 1, whose cell in column A holds the
\* label once the blanks around it are taken off.
SheetRowsOf(label) ==
    LET text == NameChars(label)
    IN  {p \in 1..Len(df_raw.cells) :
            /\ df_raw.cells[p][1][1] = "caption"
            /\ text # <<>>
            /\ Head(text) # " "
            /\ text[Len(text)] # " "
            /\ LET held == NameChars(df_raw.cells[p][1][2])
               IN  \E a \in 0..(Len(held) - Len(text)) :
                       held = Blanks(a) \o text \o Blanks(Len(held) - Len(text) - a)}

\* The labels of the sheet.
SheetLabels == {label \in KnownNames : SheetRowsOf(label) # {}}

\* The column of the sheet, counted from 1, of the d-th header cell from
\* column B on that holds a date.
SheetColumnOf(d) ==
    CHOOSE q \in 2..Len(df_raw.cells[1]) :
        /\ df_raw.cells[1][q][1] = "datetime"
        /\ Cardinality({o \in 2..q : df_raw.cells[1][o][1] = "datetime"}) = d

\* The content of a cell as a number: the number, the number a text spells,
\* and 0 for an empty cell and for anything else.
Coerced(cell) ==
    IF cell[1] \in {"num", "numtext"} THEN <<"num", cell[2]>> ELSE <<"num", 0>>

\* C20: in every emitted row of the entity that carries a label, the value
\* under the label is the content, as a number, of the sheet's cell in the
\* row where column A holds the label (the last such row) and in the column
\* of the header cell the row's date was read from, however many empty cells
\* of column A and skipped header cells come before them.
C20_ValueFromLiteralCell ==
    Emitted =>
        \A label \in SheetLabels :
            LET rows == SheetRowsOf(label)
                p == CHOOSE r \in rows : \A o \in rows : o <= r
                holder == HolderOf(label)
            IN  \A d \in DateIndices :
                    LET q == SheetColumnOf(d)
                    IN  \A e \in EntityIndices :
                            dreams_locations[e][1] = holder =>
                                /\ df_raw.cells[1][q] =
                                      <<"datetime", DictGet(RecordAt(d, e), "Date")[2]>>
                                /\ DictGet(RecordAt(d, e), label) =
                                      Coerced(df_raw.cells[p][q])

\* Records emitted from a sheet whose second body row holds a label under
\* an empty cell of column A, and whose last column holds a date after a
\* skipped header cell: the General row of that date holds the number of
\* the cell in that row and column.
C20_Witness ==
    /\ Emitted
    /\ df_raw.cells[2][1] = Null
    /\ SheetRowsOf("Total Location Revenue") = {3}
    /\ df_raw.cells[1][2] = Null
    /\ df_raw.cells[1][MaxDateCols + 1][1] = "datetime"
    /\ \E d \in DateIndices :
          /\ DictGet(RecordAt(d, General), "Date")[2] = df_raw.cells[1][MaxDateCols + 1][2]
          /\ DictGet(RecordAt(d, General), "Total Location Revenue") =
                BodyValue(2, MaxDateCols)

\* The dates the header row holds from column B on.
DiscoveredDates ==
    {df_raw.cells[1][q][2] :
        q \in {o \in 2..Len(df_raw.cells[1]) : df_raw.cells[1][o][1] = "datetime"}}

\* The emitted rows whose Date is the date and whose Location is the entity.
RowsOfPair(date, e) ==
    {k \in 1..Len(raw_data_records) :
        /\ DictGet(raw_data_records[k], "Date") = <<"datestr", date>>
        /\ DictGet(raw_data_records[k], "Location") = <<"name", dreams_locations[e][2]>>}

\* C21: the emitted rows are as many as the discovered dates times the
\* entities, and every pair of a discovered date and an entity has exactly
\* one row of that Date and that Location.
C21_OneRowPerDateAndEntity ==
    Emitted =>
        /\ Len(raw_data_records) = Cardinality(DiscoveredDates) * Len(dreams_locations)
        /\ \A date \in DiscoveredDates, e \in EntityIndices :
              Cardinality(RowsOfPair(date, e)) = 1

\* The date of the d-th header cell that holds one.
SheetDateOf(d) == df_raw.cells[1][SheetColumnOf(d)][2]

\* The six standard fields a row of the d-th date and the e-th entity is to
\* hold, derived from the date and the entity alone.
StandardFieldsOf(d, e) ==
    LET date == SheetDateOf(d)
    IN  [c \in {"Location", "Month", "Year", "Quarter", "Date", "Forecast Type"} |->
            CASE c = "Location" -> <<"name", dreams_locations[e][2]>>
              [] c = "Month" -> <<"name", MonthNames[date[2]]>>
              [] c = "Year" -> <<"num", date[1]>>
              [] c = "Quarter" ->
                    <<"name", IF date[2] <= 3 THEN "Q1"
                              ELSE IF date[2] <= 6 THEN "Q2"
                              ELSE IF date[2] <= 9 THEN "Q3" ELSE "Q4">>
              [] c = "Date" -> <<"datestr", date>>
              [] c = "Forecast Type" ->
                    <<"name", IF \/ date[1] > 2025
                                 \/ (date[1] = 2025 /\ date[2] > 6)
                              THEN "FORECAST" ELSE "ACTUAL">>]

\* C22: in every emitted row, and in every row of the saved table, the
\* fields Location, Month, Year, Quarter, Date and Forecast Type hold the
\* values derived from the row's entity and date, whatever labels column A
\* holds.
C22_StandardFieldsFromEntityAndDate ==
    Emitted =>
        \A d \in DateIndices, e \in EntityIndices :
            \A c \in DOMAIN StandardFieldsOf(d, e) :
                /\ DictGet(RecordAt(d, e), c) = StandardFieldsOf(d, e)[c]
                /\ tpc = "saved" =>
                      raw_data_df.rows[(d - 1) * Len(dreams_locations) + e][c] =
                          StandardFieldsOf(d, e)[c]

====
